---- MODULE Spec2Model ----
(***************************************************************************)
(* urql custom-scalars exchange (src/src/index.ts).                        *)
(*                                                                         *)
(* JavaScript values live in a heap: objects and arrays are heap nodes     *)
(* reached through references, so that copying, sharing and in-place       *)
(* writes are distinguishable.  mapScalar, the two resolvers and the       *)
(* exchange's two map() stages are translated from the source.             *)
(***************************************************************************)
EXTENDS Integers, Sequences, FiniteSets, TLC

VARIABLES
    heap,       \* the JavaScript heap: a sequence of object / array nodes
    heap0,      \* the heap as it was when the current input was handed over
    root,       \* mapper runs: the `data` argument of mapScalar
    path,       \* mapper runs: the `path` argument of mapScalar
    fns,        \* mapper runs: the transforms applied so far, in order
    out,        \* mapper runs: what the last mapScalar call returned
    calls,      \* every argument a transform was called with, in call order
    pc,         \* position of the run
    scalars,    \* the exchange's `scalars` option
    ops,        \* operations$: the operations still to arrive
    query,      \* operation.query of the operation in the exchange
    variables,  \* operation.variables
    vars0,      \* the content of operation.variables on arrival
    argsData,   \* args.data of the result
    argsData0,  \* the content of args.data as the next exchange sent it
    scalarsInInputs,            \* getScalarsInInput: its result so far
    scalarsInQuery,             \* getScalarsInQuery: its result so far
    nodesInQuery,               \* getScalarsInQuery: collected by the visit
    nodesInFragments,           \* getScalarsInQuery: collected by the visit
    resolvedScalarsInFragments, \* getScalarsInQuery: the memo table
    stack,      \* the frames of the resolver's recursion
    idx,        \* position of the outermost forEach
    steps,      \* calls and returns of the running resolver
    log         \* what getScalarsInQuery returned, per result, in order

mapVars == <<root, path, fns, out>>
exchangeVars == <<scalars, ops, query, variables, vars0, argsData, argsData0,
                  scalarsInInputs, scalarsInQuery, nodesInQuery,
                  nodesInFragments, resolvedScalarsInFragments, stack, idx,
                  steps, log>>
vars == <<heap, heap0, calls, pc, mapVars, exchangeVars>>

(***************************************************************************)
(* Bounds of the model.                                                    *)
(***************************************************************************)
MaxElems == 2       \* longest array in a generated tree
MaxSteps == 40      \* calls and returns one resolver run may take

(***************************************************************************)
(* Values.  A value is null, a string (a sequence of characters), a        *)
(* number (its digits) or a reference to a heap node.  undefined (a        *)
(* missing key) is only ever tested with `== null` by the source, so it    *)
(* is read as null.                                                        *)
(***************************************************************************)
Null == [k |-> "null", s |-> <<>>, a |-> 0]
Str(chars) == [k |-> "str", s |-> chars, a |-> 0]
Num(digits) == [k |-> "num", s |-> digits, a |-> 0]
Ref(addr) == [k |-> "ref", s |-> <<>>, a |-> addr]

NoFields == [key \in {} |-> Null]
ObjNode(fields) == [k |-> "obj", f |-> fields, e |-> <<>>]
ArrNode(elems) == [k |-> "arr", f |-> NoFields, e |-> elems]

IsNull(v) == v.k = "null"
IsArray(h, v) == v.k = "ref" /\ h[v.a].k = "arr"

\* The key under which a spread exposes the i-th element (1-based here).
IdxKey(i) == ToString(i - 1)

\* obj[segment]; a missing key reads as undefined, which `== null` accepts.
Get(h, addr, segment) ==
    IF segment \in DOMAIN h[addr].f THEN h[addr].f[segment] ELSE Null

\* obj[segment] = v, an in-place write to the node at addr.
Set(h, addr, segment, v) ==
    [h EXCEPT ![addr].f =
        [key \in (DOMAIN h[addr].f) \cup {segment} |->
            IF key = segment THEN v ELSE h[addr].f[key]]]

\* { ...v }: the own enumerable properties of v in a fresh object.  An
\* array spreads to an object keyed by its indices, a string to one keyed
\* by its character positions.
SpreadFields(h, v) ==
    IF v.k = "ref"
    THEN IF h[v.a].k = "obj"
         THEN h[v.a].f
         ELSE [key \in {IdxKey(i) : i \in 1..Len(h[v.a].e)} |->
                  LET i == CHOOSE j \in 1..Len(h[v.a].e) : IdxKey(j) = key
                  IN  h[v.a].e[i]]
    ELSE IF v.k = "str"
    THEN [key \in {IdxKey(i) : i \in 1..Len(v.s)} |->
             LET i == CHOOSE j \in 1..Len(v.s) : IdxKey(j) = key
             IN  Str(<<v.s[i]>>)]
    ELSE NoFields

(***************************************************************************)
(* Transforms (MapFunction).  The test suite registers toUpperCase and     *)
(* split('').join(' '); both throw a TypeError on anything but a string.   *)
(* The others are transforms a user may register: one that throws on       *)
(* input it cannot parse, one that maps the empty value to null, and one   *)
(* that is total (a template string).                                      *)
(***************************************************************************)
UpperChar(c) == IF c = "a" THEN "A" ELSE IF c = "x" THEN "X" ELSE c

RECURSIVE Spaced(_)
Spaced(s) ==
    IF Len(s) <= 1 THEN s ELSE <<Head(s), " ">> \o Spaced(Tail(s))

Thrown == [k |-> "thrown", s |-> <<>>, a |-> 0]

\* One call of a registered transform; Thrown when it throws.
ApplyOne(fn, v) ==
    CASE fn = "upper" ->
            IF v.k = "str" THEN Str([i \in 1..Len(v.s) |-> UpperChar(v.s[i])])
            ELSE Thrown
      [] fn = "spaced" ->
            IF v.k = "str" THEN Str(Spaced(v.s)) ELSE Thrown
      [] fn = "strict" ->
            IF v.k = "str" /\ \A i \in 1..Len(v.s) : v.s[i] # "x"
            THEN Str([i \in 1..Len(v.s) |-> UpperChar(v.s[i])])
            ELSE Thrown
      [] fn = "nullify" ->
            IF v.k = "str" /\ v.s = <<"x">> THEN Null ELSE v
      [] fn = "wrap" ->
            IF v.k \in {"str", "num"} THEN Str(<<"<">> \o v.s \o <<">">>)
            ELSE IF v.k = "null" THEN Str(<<"<", "n", "u", "l", "l", ">">>)
            ELSE Str(<<"<", "o", "b", "j", ">">>)

\* A mapping is a non-empty sequence of transforms applied left to right:
\* <<t>> is t, <<t, u>> is the composed function v => u(t(v)).
RECURSIVE ApplyFn(_, _)
ApplyFn(mapping, v) ==
    IF mapping = <<>> THEN v
    ELSE LET r == ApplyOne(Head(mapping), v)
         IN  IF r = Thrown THEN Thrown ELSE ApplyFn(Tail(mapping), r)

(***************************************************************************)
(* mapScalar.  A result is the heap after the call, the returned value,    *)
(* the arguments the mapping was called with, and whether it threw.        *)
(***************************************************************************)
Result(h, v, cs, t) == [heap |-> h, val |-> v, calls |-> cs, threw |-> t]

\* array.map(mapping) at the final segment: mapping is called with every
\* element, whatever it is.
RECURSIVE MapFinal(_, _, _, _, _)
MapFinal(elems, i, mapping, done, cs) ==
    IF i > Len(elems) THEN [vals |-> done, calls |-> cs, threw |-> FALSE]
    ELSE LET r == ApplyFn(mapping, elems[i])
         IN  IF r = Thrown
             THEN [vals |-> done, calls |-> Append(cs, elems[i]), threw |-> TRUE]
             ELSE MapFinal(elems, i + 1, mapping, Append(done, r),
                           Append(cs, elems[i]))

\* { ...v } allocated: the heap with the fresh object, and its address.
CopyAliased(h, v) ==
    IF v.k = "ref" /\ h[v.a].k = "obj"
    THEN [heap |-> h, addr |-> v.a]
    ELSE [heap |-> Append(h, ObjNode(SpreadFields(h, v))), addr |-> Len(h) + 1]
Copy(h, v) ==
    [heap |-> Append(h, ObjNode(SpreadFields(h, v))), addr |-> Len(h) + 1]

\* newSubData[segment] == null, the test that stops the descent.
SegmentNeverNull(v) == FALSE
SegmentIsNull(v) == IsNull(v)

\* newSubData[finalSegment] = <mapped value>.
WriteFinalAtRoot(h, newData, cur, segment, v) == Set(h, newData, segment, v)
WriteFinal(h, newData, cur, segment, v) == Set(h, cur, segment, v)

RECURSIVE mapScalar(_, _, _, _)
RECURSIVE MapElems(_, _, _, _, _, _, _)
RECURSIVE MapLoop(_, _, _, _, _, _)

\* array.map(subData => mapScalar(subData, subPath, mapping)) at a
\* non-final segment.
MapElems(h, elems, i, subPath, mapping, done, cs) ==
    IF i > Len(elems)
    THEN [heap |-> h, vals |-> done, calls |-> cs, threw |-> FALSE]
    ELSE LET r == mapScalar(h, elems[i], subPath, mapping)
         IN  IF r.threw
             THEN [heap |-> r.heap, vals |-> done, calls |-> cs \o r.calls,
                   threw |-> TRUE]
             ELSE MapElems(r.heap, elems, i + 1, subPath, mapping,
                           Append(done, r.val), cs \o r.calls)

\* The for loop over the non-final segments, then the final segment.
\* newData is the copy of the root, cur is newSubData.
MapLoop(h, newData, cur, p, index, mapping) ==
    LET segment == p[index]
        v == Get(h, cur, segment)
    IN  IF index < Len(p)
        THEN IF IsArray(h, v)
             THEN LET subPath == SubSeq(p, index + 1, Len(p))
                      m == MapElems(h, h[v.a].e, 1, subPath, mapping, <<>>, <<>>)
                      arr == Len(m.heap) + 1
                  IN  IF m.threw
                      THEN Result(m.heap, Null, m.calls, TRUE)
                      ELSE Result(Set(Append(m.heap, ArrNode(m.vals)),
                                      cur, segment, Ref(arr)),
                                  Ref(newData), m.calls, FALSE)
             ELSE IF SegmentIsNull(v)
             THEN Result(h, Ref(newData), <<>>, FALSE)
             ELSE LET c == Copy(h, v)
                      h1 == Set(c.heap, cur, segment, Ref(c.addr))
                  IN  MapLoop(h1, newData, c.addr, p, index + 1, mapping)
        ELSE IF IsArray(h, v)
             THEN LET m == MapFinal(h[v.a].e, 1, mapping, <<>>, <<>>)
                      arr == Len(h) + 1
                  IN  IF m.threw
                      THEN Result(h, Null, m.calls, TRUE)
                      ELSE Result(Set(Append(h, ArrNode(m.vals)),
                                      cur, segment, Ref(arr)),
                                  Ref(newData), m.calls, FALSE)
             ELSE IF ~IsNull(v)
             THEN LET r == ApplyFn(mapping, v)
                  IN  IF r = Thrown
                      THEN Result(h, Null, <<v>>, TRUE)
                      ELSE Result(WriteFinal(h, newData, cur, segment, r),
                                  Ref(newData), <<v>>, FALSE)
             ELSE Result(h, Ref(newData), <<>>, FALSE)

mapScalar(h, data, p, mapping) ==
    IF IsNull(data)
    THEN Result(h, data, <<>>, FALSE)
    ELSE LET c == Copy(h, data)
         IN  IF p = <<>>
             THEN Result(c.heap, Ref(c.addr), <<>>, FALSE)
             ELSE MapLoop(c.heap, c.addr, c.addr, p, 1, mapping)

(***************************************************************************)
(* Trees as plain values, used to enumerate inputs and to compare results  *)
(* by content (deep equality).                                             *)
(***************************************************************************)
NoTrees == [key \in {} |-> 0]
TNull == [k |-> "null", s |-> <<>>, f |-> NoTrees, e |-> <<>>]
TStr(chars) == [k |-> "str", s |-> chars, f |-> NoTrees, e |-> <<>>]
TNum(digits) == [k |-> "num", s |-> digits, f |-> NoTrees, e |-> <<>>]
TObj(fields) == [k |-> "obj", s |-> <<>>, f |-> fields, e |-> <<>>]
TArr(elems) == [k |-> "arr", s |-> <<>>, f |-> NoTrees, e |-> elems]

\* The content of value v in heap h.
RECURSIVE Deref(_, _)
Deref(h, v) ==
    IF v.k = "null" THEN TNull
    ELSE IF v.k = "str" THEN TStr(v.s)
    ELSE IF v.k = "num" THEN TNum(v.s)
    ELSE IF h[v.a].k = "obj"
    THEN TObj([key \in DOMAIN h[v.a].f |-> Deref(h, h[v.a].f[key])])
    ELSE TArr([i \in 1..Len(h[v.a].e) |-> Deref(h, h[v.a].e[i])])

\* Allocates tree t in heap h, children first: [heap, val].
RECURSIVE Build(_, _)
RECURSIVE BuildFields(_, _, _, _)
RECURSIVE BuildElems(_, _, _, _)
BuildFields(h, fields, keys, done) ==
    IF keys = {} THEN [heap |-> h, f |-> done]
    ELSE LET key == CHOOSE x \in keys : TRUE
             r == Build(h, fields[key])
         IN  BuildFields(r.heap, fields, keys \ {key},
                 [x \in (DOMAIN done) \cup {key} |->
                     IF x = key THEN r.val ELSE done[x]])
BuildElems(h, elems, i, done) ==
    IF i > Len(elems) THEN [heap |-> h, e |-> done]
    ELSE LET r == Build(h, elems[i])
         IN  BuildElems(r.heap, elems, i + 1, Append(done, r.val))
Build(h, t) ==
    IF t.k = "null" THEN [heap |-> h, val |-> Null]
    ELSE IF t.k = "str" THEN [heap |-> h, val |-> Str(t.s)]
    ELSE IF t.k = "num" THEN [heap |-> h, val |-> Num(t.s)]
    ELSE IF t.k = "obj"
    THEN LET r == BuildFields(h, t.f, DOMAIN t.f, NoFields)
         IN  [heap |-> Append(r.heap, ObjNode(r.f)), val |-> Ref(Len(r.heap) + 1)]
    ELSE LET r == BuildElems(h, t.e, 1, <<>>)
         IN  [heap |-> Append(r.heap, ArrNode(r.e)), val |-> Ref(Len(r.heap) + 1)]

(***************************************************************************)
(* Mapper runs: the inputs.  Response data as the tests build it (a string,*)
(* a nested object, a list of either, null where the schema allows it),    *)
(* and lists of lists, which a schema may declare.                         *)
(***************************************************************************)
SeqsUpTo(S, n) == UNION {[1..m -> S] : m \in 0..n}
F1(key, t) == [x \in {key} |-> t]
F2(k1, t1, k2, t2) == [x \in {k1, k2} |-> IF x = k1 THEN t1 ELSE t2]

simpleData == TStr(<<"a">>)
nestedData == TObj(F1("name", simpleData))

LeafTrees == {TNull, simpleData, TStr(<<"x">>)}
NameTrees ==
    LeafTrees \cup {TArr(e) : e \in SeqsUpTo(LeafTrees, MaxElems)}
              \cup {TArr(<<TArr(<<simpleData>>)>>)}
NestedObjs == {TObj(F1("name", t)) : t \in NameTrees} \cup {TObj(NoTrees)}
ElemTrees ==
    {TNull, nestedData, TObj(F1("name", TNull)), TObj(F1("name", TStr(<<"x">>))),
     TArr(<<nestedData>>)}
NestedTrees ==
    {TNull} \cup NestedObjs \cup {TArr(e) : e \in SeqsUpTo(ElemTrees, MaxElems)}
DeepTrees ==
    {TNull, nestedData,
     TObj(F2("name", simpleData, "deeplyNested", TNull)),
     TObj(F2("name", simpleData, "deeplyNested", nestedData)),
     TObj(F2("name", TNull, "deeplyNested", TObj(F1("name", TStr(<<"x">>))))),
     TObj(F2("name", simpleData, "deeplyNested", TObj(F1("name", TArr(<<simpleData, TNull>>)))))}

\* [tree, path] pairs handed to mapScalar.
MapInputs ==
    {[tree |-> TNull, path |-> <<"simple">>]}
    \cup {[tree |-> TObj(F2("__typename", TStr(<<"Q">>), "list", t)),
           path |-> <<"list">>] : t \in NameTrees}
    \cup {[tree |-> TObj(F2("other", nestedData, "nested", t)),
           path |-> <<"nested", "name">>] : t \in NestedTrees}
    \cup {[tree |-> TObj(F1("listNested", TArr(e))),
           path |-> <<"listNested", "deeplyNested", "name">>] :
               e \in SeqsUpTo(DeepTrees, MaxElems)}

MapFns == {"upper", "spaced", "strict", "nullify", "wrap"}

\* Mapper runs leave the exchange's state alone.
ExchangeUnused ==
    /\ scalars = NoFields
    /\ ops = <<>>
    /\ query = <<>>
    /\ variables = Null
    /\ vars0 = TNull
    /\ argsData = Null
    /\ argsData0 = TNull
    /\ scalarsInInputs = <<>>
    /\ scalarsInQuery = <<>>
    /\ nodesInQuery = <<>>
    /\ nodesInFragments = NoFields
    /\ resolvedScalarsInFragments = NoFields
    /\ stack = <<>>
    /\ idx = 1
    /\ steps = 0
    /\ log = <<>>

\* Exchange runs leave the mapper runs' state alone.
MapperUnused ==
    /\ root = Null
    /\ path = <<>>
    /\ fns = <<>>
    /\ out = Result(<<>>, Null, <<>>, FALSE)

InitMap ==
    \E input \in MapInputs :
        LET b == Build(<<>>, input.tree)
        IN  /\ heap = b.heap
            /\ heap0 = b.heap
            /\ root = b.val
            /\ path = input.path
            /\ fns = <<>>
            /\ out = Result(<<>>, Null, <<>>, FALSE)
            /\ calls = <<>>
            /\ pc = "start"
            /\ ExchangeUnused

\* One mapScalar call on the input, with transform fn.
MapFirst(fn) ==
    /\ pc = "start"
    /\ LET r == mapScalar(heap, root, path, <<fn>>)
       IN  /\ heap' = r.heap
           /\ out' = [r EXCEPT !.heap = <<>>]
           /\ calls' = r.calls
    /\ fns' = <<fn>>
    /\ pc' = "mapped1"
    /\ UNCHANGED <<heap0, root, path, exchangeVars>>

\* A second mapScalar call, on what the first returned, same path.
MapSecond(fn) ==
    /\ pc = "mapped1"
    /\ ~out.threw
    /\ LET r == mapScalar(heap, out.val, path, <<fn>>)
       IN  /\ heap' = r.heap
           /\ out' = [r EXCEPT !.heap = <<>>]
           /\ calls' = calls \o r.calls
    /\ fns' = Append(fns, fn)
    /\ pc' = "mapped2"
    /\ UNCHANGED <<heap0, root, path, exchangeVars>>

NextMap ==
    \/ \E fn \in MapFns : MapFirst(fn)
    \/ \E fn \in MapFns : MapSecond(fn)

SpecMap == InitMap /\ [][NextMap]_vars

(***************************************************************************)
(* The client schema (buildClientSchema).  The types of the test fixture,  *)
(* and beside them the shapes a schema may also declare: a scalar with no  *)
(* registered transform, an enum, and input-object types that refer to     *)
(* themselves directly (TreeInput) and through another type (PingInput).   *)
(* getNamedType drops the list and non-null wrappers, so a field keeps its *)
(* named type; list and nullable only shape the values of that type.       *)
(***************************************************************************)
Fld(name, type, list, nullable) ==
    [name |-> name, type |-> type, list |-> list, nullable |-> nullable]

TypeKind ==
    [String |-> "scalar", Int |-> "scalar", Sort |-> "enum",
     Query |-> "object", Nested |-> "object",
     ListInput |-> "input", ListNestedInput |-> "input",
     TreeInput |-> "input", PingInput |-> "input", PongInput |-> "input"]

TypeFields ==
    [Query |-> <<Fld("simple", "String", FALSE, FALSE),
                 Fld("nested", "Nested", FALSE, FALSE),
                 Fld("nestedNullable", "Nested", FALSE, TRUE),
                 Fld("list", "String", TRUE, FALSE),
                 Fld("listNested", "Nested", TRUE, FALSE),
                 Fld("count", "Int", FALSE, FALSE)>>,
     Nested |-> <<Fld("name", "String", FALSE, FALSE),
                  Fld("deeplyNested", "Nested", FALSE, TRUE)>>,
     ListInput |-> <<Fld("topInput", "String", FALSE, TRUE),
                     Fld("nested", "ListNestedInput", FALSE, TRUE)>>,
     ListNestedInput |-> <<Fld("nestedInput", "String", FALSE, TRUE)>>,
     TreeInput |-> <<Fld("value", "String", FALSE, TRUE),
                     Fld("order", "Sort", FALSE, TRUE),
                     Fld("children", "TreeInput", TRUE, TRUE)>>,
     PingInput |-> <<Fld("ping", "String", FALSE, TRUE),
                     Fld("pong", "PongInput", FALSE, TRUE)>>,
     PongInput |-> <<Fld("pong", "String", FALSE, TRUE),
                     Fld("back", "PingInput", FALSE, TRUE)>>]

\* clientSchema.getType(name) != null
HasType(name) == name \in DOMAIN TypeKind

\* variableType.getFields(), in declaration order (Object.values).
getFields(type) == IF type \in DOMAIN TypeFields THEN TypeFields[type] ELSE <<>>

NoFld == Fld("", "", FALSE, TRUE)

\* The definition of field `name` of `type`; NoFld when TypeInfo finds none.
FieldDef(type, name) ==
    LET fs == getFields(type)
    IN  IF \E i \in 1..Len(fs) : fs[i].name = name
        THEN fs[CHOOSE i \in 1..Len(fs) : fs[i].name = name]
        ELSE NoFld

(***************************************************************************)
(* Documents (DocumentNode): a sequence of definitions, each an operation  *)
(* or a fragment with a selection set; a selection is a field (alias, name,*)
(* sub-selections) or a fragment spread.                                   *)
(***************************************************************************)
Field(name, sel) == [kind |-> "field", alias |-> "", name |-> name, sel |-> sel]
Aliased(alias, name, sel) ==
    [kind |-> "field", alias |-> alias, name |-> name, sel |-> sel]
Spread(name) == [kind |-> "spread", alias |-> "", name |-> name, sel |-> <<>>]
VarDef(name, type) == [name |-> name, type |-> type]
Operation(name, varDefs, sel) ==
    [kind |-> "operation", name |-> name, on |-> "Query", vars |-> varDefs,
     sel |-> sel]
Fragment(name, on, sel) ==
    [kind |-> "fragment", name |-> name, on |-> on, vars |-> <<>>, sel |-> sel]

\* scalars[name]?.serialize / scalars[name]?.deserialize; "none" when absent.
Registered(sc, name, direction) ==
    name \in DOMAIN sc /\ sc[name][direction] # "none"

(***************************************************************************)
(* getScalarsInQuery, first half: the visit of the document with TypeInfo. *)
(***************************************************************************)
\* getPathAndFragmentName pushes the alias if there is one, else the name.
ResponseKey(field) == IF field.alias # "" THEN field.alias ELSE field.name

ScalarInNode(name, p) == [kind |-> "scalar", name |-> name, path |-> p]
FragmentInNode(name, p) == [kind |-> "fragment", name |-> name, path |-> p]

\* The NodeWithPath records the Field and FragmentSpread visitors push for
\* a selection set, in document order, depth first.  `type` is the type
\* TypeInfo holds for the parent ("" when it knows none), `prefix` the
\* response keys of the enclosing fields of this definition.
RECURSIVE VisitSelections(_, _, _, _)
VisitSelections(sc, sels, type, prefix) ==
    IF sels = <<>> THEN <<>>
    ELSE LET node == Head(sels)
             fieldType == FieldDef(type, node.name).type
             p == Append(prefix, ResponseKey(node))
             here ==
                 IF node.kind = "spread"
                 THEN <<FragmentInNode(node.name, prefix)>>
                 ELSE (IF /\ HasType(fieldType)
                          /\ TypeKind[fieldType] = "scalar"
                          /\ Registered(sc, fieldType, "deserialize")
                       THEN <<ScalarInNode(fieldType, p)>>
                       ELSE <<>>)
                      \o VisitSelections(sc, node.sel, fieldType, p)
         IN  here \o VisitSelections(sc, Tail(sels), type, prefix)

\* nodesInQuery: what the visit pushed outside any fragment definition.
RECURSIVE VisitOperations(_, _)
VisitOperations(sc, doc) ==
    IF doc = <<>> THEN <<>>
    ELSE (IF Head(doc).kind = "operation"
          THEN VisitSelections(sc, Head(doc).sel, Head(doc).on, <<>>)
          ELSE <<>>) \o VisitOperations(sc, Tail(doc))

\* nodesInFragments[name]: what the visit pushed inside fragment `name`.
RECURSIVE VisitFragment(_, _, _)
VisitFragment(sc, doc, name) ==
    IF doc = <<>> THEN <<>>
    ELSE (IF Head(doc).kind = "fragment" /\ Head(doc).name = name
          THEN VisitSelections(sc, Head(doc).sel, Head(doc).on, <<>>)
          ELSE <<>>) \o VisitFragment(sc, Tail(doc), name)

FragmentNames(doc) ==
    {doc[i].name : i \in {j \in 1..Len(doc) : doc[j].kind = "fragment"}}

\* nodesInFragments has a key only for a fragment the visit pushed into.
VisitFragments(sc, doc) ==
    [name \in {n \in FragmentNames(doc) : VisitFragment(sc, doc, n) # <<>>} |->
        VisitFragment(sc, doc, name)]

(***************************************************************************)
(* The exchange.  Both resolvers recurse; their recursion is run one call  *)
(* or return at a time on an explicit stack of frames                      *)
(*   [name, visited, i, acc]                                               *)
(* where name is the input-object type (fragment) being resolved, visited  *)
(* the names passed down to it, i the position of its forEach and acc its  *)
(* scalarsInInputObjectType (scalarsInFragment).                           *)
(***************************************************************************)
Frame(name, visited, i, acc) ==
    [name |-> name, visited |-> visited, i |-> i, acc |-> acc]

Contains(list, x) == \E i \in 1..Len(list) : list[i] = x

Top(stk) == stk[Len(stk)]
Pop(stk) == SubSeq(stk, 1, Len(stk) - 1)
ReplaceTop(stk, frame) == [stk EXCEPT ![Len(stk)] = frame]

\* .map(scalarWithPath => ({ ...scalarWithPath, path: [...prefix, ...path] }))
WithPrefixDropped(prefix, list) == list
WithPrefix(prefix, list) ==
    [i \in 1..Len(list) |-> [list[i] EXCEPT !.path = prefix \o @]]

\* The variable definitions the visitor meets, in document order.
RECURSIVE VariableDefinitions(_)
VariableDefinitions(doc) ==
    IF doc = <<>> THEN <<>>
    ELSE (IF Head(doc).kind = "operation" THEN Head(doc).vars ELSE <<>>)
         \o VariableDefinitions(Tail(doc))

\* visitedInputObjectTypeNames.includes(variableType.name)
InputCycleNeverSeen(visited, type) == FALSE
InputCycleSeen(visited, type) == Contains(visited, type)

\* resolveScalarsInInputType up to its forEach: what the call returns at
\* once, or that it goes on to iterate the fields of an input object.
InputCall(sc, type, visited) ==
    IF InputCycleSeen(visited, type)
    THEN [iterate |-> FALSE, ret |-> <<>>]
    ELSE IF TypeKind[type] = "scalar"
    THEN [iterate |-> FALSE,
          ret |-> IF Registered(sc, type, "serialize")
                  THEN <<[name |-> type, path |-> <<>>]>>
                  ELSE <<>>]
    ELSE IF TypeKind[type] = "enum"
    THEN [iterate |-> FALSE, ret |-> <<>>]
    ELSE [iterate |-> TRUE, ret |-> <<>>]

\* visitedFragmentNames.includes(fragmentName)
FragmentCycleSeen(visited, name) == Contains(visited, name)

\* nodesInFragments[fragmentName]?.forEach: nothing for a missing key.
NodesOf(nodesF, name) == IF name \in DOMAIN nodesF THEN nodesF[name] ELSE <<>>

NoLists == [name \in {} |-> <<>>]

\* isInputType(variableType)
isInputType(type) == TypeKind[type] \in {"scalar", "enum", "input"}

(***************************************************************************)
(* What the exchange is run on: scalar registrations, documents, the       *)
(* variables sent with them and the results the next exchange answers.     *)
(***************************************************************************)
\* The selection set of fragment `name`; empty when the document has none.
FragmentSel(doc, name) ==
    IF \E i \in 1..Len(doc) : doc[i].kind = "fragment" /\ doc[i].name = name
    THEN doc[CHOOSE i \in 1..Len(doc) :
                 doc[i].kind = "fragment" /\ doc[i].name = name].sel
    ELSE <<>>

\* A selection set with every fragment spread replaced by the selections
\* of its fragment, to any depth; a spread of a fragment that is already
\* being expanded (a cycle) is dropped.
RECURSIVE InlineCut(_, _, _)
InlineCut(doc, sels, expanding) ==
    IF sels = <<>> THEN <<>>
    ELSE LET node == Head(sels)
             here ==
                 IF node.kind = "spread"
                 THEN IF node.name \in expanding THEN <<>>
                      ELSE InlineCut(doc, FragmentSel(doc, node.name),
                                     expanding \cup {node.name})
                 ELSE <<[node EXCEPT !.sel = InlineCut(doc, node.sel, expanding)]>>
         IN  here \o InlineCut(doc, Tail(sels), expanding)

\* The document with its spreads inlined and its fragment definitions gone.
RECURSIVE Inline(_, _)
Inline(doc, rest) ==
    IF rest = <<>> THEN <<>>
    ELSE (IF Head(rest).kind = "operation"
          THEN <<[Head(rest) EXCEPT !.sel = InlineCut(doc, Head(rest).sel, {})]>>
          ELSE <<>>) \o Inline(doc, Tail(rest))

\* Some spread below sels closes a cycle of fragments.
RECURSIVE ClosesCycle(_, _, _)
ClosesCycle(doc, sels, expanding) ==
    \E i \in 1..Len(sels) :
        IF sels[i].kind = "spread"
        THEN \/ sels[i].name \in expanding
             \/ ClosesCycle(doc, FragmentSel(doc, sels[i].name),
                            expanding \cup {sels[i].name})
        ELSE ClosesCycle(doc, sels[i].sel, expanding)

AcyclicDoc(doc) ==
    \A i \in 1..Len(doc) :
        ~ClosesCycle(doc, doc[i].sel,
                     IF doc[i].kind = "fragment" THEN {doc[i].name} ELSE {})

HasFragments(doc) == FragmentNames(doc) # {}

\* The operation a request of the document executes: its first operation.
OwnOperation(doc) ==
    doc[CHOOSE i \in 1..Len(doc) :
            /\ doc[i].kind = "operation"
            /\ \A j \in 1..(i - 1) : doc[j].kind # "operation"]

\* scalars: the test's pair, a pair that throws on "x", a pair defined on
\* every value, and a registration with no deserialize.
ScalarConfigs ==
    {[String |-> [serialize |-> "spaced", deserialize |-> "upper"]],
     [String |-> [serialize |-> "strict", deserialize |-> "strict"]],
     [String |-> [serialize |-> "wrap", deserialize |-> "wrap"]],
     [String |-> [serialize |-> "spaced", deserialize |-> "none"]]}

\* Selections on Nested, used as fragment bodies.
nameField == Field("name", <<>>)
FragmentBodiesA ==
    {<<nameField>>,
     <<nameField, Field("deeplyNested", <<Spread("B")>>)>>,
     <<nameField, Field("deeplyNested", <<Spread("A")>>)>>,
     <<Spread("B"), Aliased("alias", "name", <<>>)>>}
FragmentBodiesB ==
    {<<nameField>>,
     <<nameField, Field("deeplyNested", <<Spread("A")>>)>>,
     <<Field("deeplyNested", <<nameField>>)>>,
     <<Spread("A")>>}

\* Selections of the operation: the tests' shapes over fragments A and B.
QuerySelections ==
    {<<Field("nested", <<Spread("A")>>)>>,
     <<Field("listNested", <<Spread("A")>>)>>,
     <<Aliased("first", "nested", <<Spread("A")>>),
       Aliased("second", "nested", <<Spread("A")>>)>>,
     <<Field("nested", <<Spread("A")>>), Field("listNested", <<Spread("B")>>)>>,
     <<Field("nested", <<Spread("B")>>), Field("listNested", <<Spread("A")>>)>>,
     <<Field("nested", <<nameField, Spread("A")>>)>>,
     <<Field("simple", <<>>), Field("nestedNullable", <<Spread("A")>>),
       Field("list", <<>>)>>}

FragmentDocs ==
    {<<Operation("", <<>>, q), Fragment("A", "Nested", bodyA),
       Fragment("B", "Nested", bodyB)>> :
        q \in QuerySelections, bodyA \in FragmentBodiesA, bodyB \in FragmentBodiesB}

\* The tests' documents without fragments of Nested, a fragment defined
\* before the operation that spreads it, and a repeated field.
PlainDocs ==
    {<<Operation("", <<>>, <<Field("simple", <<>>)>>)>>,
     <<Operation("", <<>>, <<Field("nested", <<nameField>>)>>)>>,
     <<Operation("", <<>>, <<Field("nestedNullable", <<nameField>>)>>)>>,
     <<Operation("", <<>>, <<Field("list", <<>>)>>)>>,
     <<Operation("", <<>>, <<Field("listNested", <<nameField>>)>>)>>,
     <<Operation("", <<>>, <<Field("count", <<>>)>>)>>,
     <<Operation("", <<>>, <<Field("simple", <<>>), Field("simple", <<>>)>>)>>,
     <<Operation("", <<>>, <<Spread("QueryFields")>>),
       Fragment("QueryFields", "Query", <<Field("listNested", <<nameField>>)>>)>>,
     <<Fragment("QueryFields", "Query",
                <<Field("listNested", <<Field("deeplyNested", <<nameField>>)>>)>>),
       Operation("", <<>>, <<Field("simple", <<>>), Spread("QueryFields")>>)>>}

\* Documents with more than one operation.
MultiDocs ==
    {<<Operation("First", <<>>, <<Aliased("v", "count", <<>>)>>),
       Operation("Second", <<>>, <<Aliased("v", "simple", <<>>)>>)>>,
     <<Operation("First", <<>>, <<Field("simple", <<>>)>>),
       Operation("Second", <<>>, <<Field("simple", <<>>), Field("list", <<>>)>>)>>,
     <<Operation("First", <<>>, <<Field("simple", <<>>), Aliased("v", "count", <<>>)>>),
       Operation("Second", <<>>, <<Aliased("v", "simple", <<>>)>>)>>,
     <<Operation("First", <<>>, <<Field("nested", <<nameField>>)>>),
       Operation("Second", <<>>, <<Field("list", <<>>)>>)>>}

OutputDocs == FragmentDocs \cup PlainDocs \cup MultiDocs

\* Variables: the declared variables of an operation and values for them.
oddData == TStr(<<"x">>)
F3(k1, t1, k2, t2, k3, t3) ==
    [key \in {k1, k2, k3} |-> IF key = k1 THEN t1 ELSE IF key = k2 THEN t2 ELSE t3]

VariableCases ==
    {[defs |-> <<VarDef("input", "String")>>, values |-> v] :
        v \in {TNull, TObj(F1("input", simpleData)), TObj(F1("input", oddData)),
               TObj(F1("input", TNull)),
               TObj(F1("input", TArr([i \in 1..MaxElems |-> simpleData]))),
               TObj(F1("input", TArr(<<simpleData, TNull>>)))}}
    \cup
    {[defs |-> <<VarDef("input", "ListInput")>>, values |-> TObj(F1("input", v))] :
        v \in {TObj(F2("topInput", simpleData, "nested", TObj(F1("nestedInput", simpleData)))),
               TObj(F2("topInput", simpleData, "nested", TObj(F1("nestedInput", oddData)))),
               TObj(F2("topInput", oddData, "nested", TObj(F1("nestedInput", simpleData)))),
               TObj(F2("topInput", TNull, "nested", TNull)),
               TObj(F1("topInput", simpleData)),
               TArr(<<TObj(F1("topInput", simpleData)), TObj(F1("topInput", simpleData))>>)}}
    \cup
    {[defs |-> <<VarDef("input", "TreeInput")>>, values |-> TObj(F1("input", v))] :
        v \in {TObj(F3("value", simpleData, "order", simpleData, "children", TArr(<<>>))),
               TObj(F2("value", simpleData, "children", TArr(<<TObj(F1("value", simpleData))>>))),
               TObj(F1("children", TArr(<<TObj(F1("value", oddData))>>)))}}
    \cup
    {[defs |-> <<VarDef("input", "PingInput")>>, values |-> TObj(F1("input", v))] :
        v \in {TObj(F2("ping", simpleData, "pong", TObj(F1("pong", simpleData)))),
               TObj(F2("ping", simpleData, "pong",
                       TObj(F2("pong", simpleData, "back", TObj(F1("ping", simpleData))))))}}
    \cup
    {[defs |-> <<VarDef("first", "String"), VarDef("second", "ListInput")>>,
      values |-> TObj(F2("first", f, "second", TObj(F1("topInput", s))))] :
        f \in {simpleData, oddData, TNull}, s \in {simpleData, oddData}}
    \cup
    {[defs |-> <<VarDef("input", t)>>, values |-> TObj(F1("input", v))] :
        t \in {"Sort", "Nested", "Missing"}, v \in {simpleData}}
    \cup
    {[defs |-> <<VarDef("input", "Int")>>, values |-> TObj(F1("input", TNum(<<"1">>)))]}

\* The tests' listWithInput with each case of variables, and a request
\* that has both a self-referring variable type and a self-spreading
\* fragment.
InputDocs ==
    {[query |-> <<Operation("WithInput", c.defs, <<Field("list", <<>>)>>)>>,
      variables |-> c.values] : c \in VariableCases}
    \cup
    {[query |-> <<Operation("Both", <<VarDef("input", "TreeInput")>>,
                           <<Field("nested", <<Spread("A")>>)>>),
                  Fragment("A", "Nested",
                           <<nameField, Field("deeplyNested", <<Spread("A")>>)>>)>>,
      variables |-> TObj(F1("input", TObj(F1("value", simpleData))))]}

\* The operations sent down the stream: one request of a document, and for
\* an acyclic document that spreads fragments a second request, of the
\* document with the spreads inlined.
OpStreams ==
    {<<[query |-> doc, variables |-> TNull]>> :
        doc \in {d \in OutputDocs : ~(AcyclicDoc(d) /\ HasFragments(d))}}
    \cup {<<[query |-> doc, variables |-> TNull],
            [query |-> Inline(doc, doc), variables |-> TNull]>> :
        doc \in {d \in OutputDocs : AcyclicDoc(d) /\ HasFragments(d)}}
    \cup {<<op>> : op \in InputDocs}

\* Results.  The data follows the selection set of the executed operation
\* (fragments expanded) and the schema; a result may also carry no data.
\*   "full":   every field present, lists of MaxElems elements
\*   "sparse": nullable fields null, lists of one element
\*   "odd":    as "full", with "x" for every name
Variants == {"full", "sparse", "odd"}

RECURSIVE MergedSel(_, _)
MergedSel(sels, key) ==
    IF sels = <<>> THEN <<>>
    ELSE (IF ResponseKey(Head(sels)) = key THEN Head(sels).sel ELSE <<>>)
         \o MergedSel(Tail(sels), key)

RECURSIVE ResponseTree(_, _, _)
ResponseTree(type, sels, variant) ==
    TObj([key \in {ResponseKey(sels[i]) : i \in 1..Len(sels)} |->
        LET first == sels[CHOOSE i \in 1..Len(sels) : ResponseKey(sels[i]) = key]
            def == FieldDef(type, first.name)
            one == IF ~HasType(def.type) THEN TNull
                   ELSE IF def.type = "String"
                   THEN (IF variant = "odd" /\ first.name = "name" THEN oddData ELSE simpleData)
                   ELSE IF def.type = "Int" THEN TNum(<<"1">>)
                   ELSE ResponseTree(def.type, MergedSel(sels, key), variant)
        IN  IF def.nullable /\ variant = "sparse" THEN TNull
            ELSE IF def.list
            THEN TArr([i \in 1..(IF variant = "sparse" THEN 1 ELSE MaxElems) |-> one])
            ELSE one])

\* data: { __typename: 'Query', ...data }
WithTypename(tree) ==
    TObj([key \in (DOMAIN tree.f) \cup {"__typename"} |->
            IF key = "__typename" THEN TStr(<<"Q">>) ELSE tree.f[key]])

Responses(doc) ==
    {TNull} \cup
    {WithTypename(ResponseTree("Query", InlineCut(doc, OwnOperation(doc).sel, {}), v)) :
        v \in Variants}

Init ==
    /\ \E sc \in ScalarConfigs : scalars = sc
    /\ \E stream \in OpStreams : ops = stream
    /\ query = <<>>
    /\ variables = Null
    /\ vars0 = TNull
    /\ argsData = Null
    /\ argsData0 = TNull
    /\ scalarsInInputs = <<>>
    /\ scalarsInQuery = <<>>
    /\ nodesInQuery = <<>>
    /\ nodesInFragments = NoLists
    /\ resolvedScalarsInFragments = NoLists
    /\ stack = <<>>
    /\ idx = 1
    /\ steps = 0
    /\ log = <<>>
    /\ heap = <<>>
    /\ heap0 = <<>>
    /\ calls = <<>>
    /\ pc = "idle"
    /\ MapperUnused

\* An operation arrives on operations$.
Arrive ==
    /\ pc \in {"idle", "done"}
    /\ ops # <<>>
    /\ LET b == Build(heap, Head(ops).variables)
       IN  /\ heap' = b.heap
           /\ heap0' = b.heap
           /\ variables' = b.val
    /\ vars0' = Head(ops).variables
    /\ query' = Head(ops).query
    /\ ops' = Tail(ops)
    /\ argsData' = Null
    /\ argsData0' = TNull
    /\ scalarsInInputs' = <<>>
    /\ scalarsInQuery' = <<>>
    /\ nodesInQuery' = <<>>
    /\ nodesInFragments' = NoLists
    /\ resolvedScalarsInFragments' = NoLists
    /\ stack' = <<>>
    /\ idx' = 1
    /\ steps' = 0
    /\ calls' = <<>>
    /\ pc' = "input"
    /\ UNCHANGED <<scalars, log, mapVars>>

\* getScalarsInInput: the next VariableDefinition, or the next field of the
\* input object on top of the stack; the call made for it returns at once
\* or pushes a frame.
InputStep ==
    /\ pc = "input"
    /\ steps < MaxSteps
    /\ steps' = steps + 1
    /\ IF stack = <<>>
       THEN /\ idx <= Len(VariableDefinitions(query))
            /\ LET def == VariableDefinitions(query)[idx]
               IN  IF ~HasType(def.type) \/ ~isInputType(def.type)
                   THEN /\ idx' = idx + 1
                        /\ UNCHANGED <<stack, scalarsInInputs>>
                   ELSE LET c == InputCall(scalars, def.type, <<>>)
                        IN  IF c.iterate
                            THEN /\ stack' = <<Frame(def.type, <<>>, 1, <<>>)>>
                                 /\ UNCHANGED <<idx, scalarsInInputs>>
                            ELSE /\ scalarsInInputs' =
                                       scalarsInInputs \o WithPrefix(<<def.name>>, c.ret)
                                 /\ idx' = idx + 1
                                 /\ UNCHANGED stack
       ELSE /\ Top(stack).i <= Len(getFields(Top(stack).name))
            /\ LET top == Top(stack)
                   field == getFields(top.name)[top.i]
                   visited == Append(top.visited, top.name)
                   c == InputCall(scalars, field.type, visited)
               IN  IF c.iterate
                   THEN stack' = Append(stack, Frame(field.type, visited, 1, <<>>))
                   ELSE stack' = ReplaceTop(stack,
                            [top EXCEPT !.i = @ + 1,
                                        !.acc = @ \o WithPrefix(<<field.name>>, c.ret)])
            /\ UNCHANGED <<idx, scalarsInInputs>>
    /\ UNCHANGED <<heap, heap0, variables, vars0, query, ops, argsData, argsData0,
                   scalarsInQuery, nodesInQuery, nodesInFragments,
                   resolvedScalarsInFragments, calls, pc, scalars, log, mapVars>>

\* resolveScalarsInInputType returns scalarsInInputObjectType to its caller.
InputReturn ==
    /\ pc = "input"
    /\ steps < MaxSteps
    /\ steps' = steps + 1
    /\ stack # <<>>
    /\ Top(stack).i > Len(getFields(Top(stack).name))
    /\ LET ret == Top(stack).acc
           rest == Pop(stack)
       IN  IF rest = <<>>
           THEN /\ scalarsInInputs' = scalarsInInputs \o
                      WithPrefix(<<VariableDefinitions(query)[idx].name>>, ret)
                /\ idx' = idx + 1
                /\ stack' = rest
           ELSE LET parent == Top(rest)
                    field == getFields(parent.name)[parent.i]
                IN  /\ stack' = ReplaceTop(rest,
                           [parent EXCEPT !.i = @ + 1,
                                          !.acc = @ \o WithPrefix(<<field.name>>, ret)])
                    /\ UNCHANGED <<idx, scalarsInInputs>>
    /\ UNCHANGED <<heap, heap0, variables, vars0, query, ops, argsData, argsData0,
                   scalarsInQuery, nodesInQuery, nodesInFragments,
                   resolvedScalarsInFragments, calls, pc, scalars, log, mapVars>>

\* getScalarsInInput has returned: nothing to encode, or start the forEach.
InputDone ==
    /\ pc = "input"
    /\ stack = <<>>
    /\ idx > Len(VariableDefinitions(query))
    /\ pc' = IF scalarsInInputs = <<>> THEN "forward" ELSE "serialize"
    /\ idx' = 1
    /\ UNCHANGED <<heap, heap0, variables, vars0, query, ops, argsData, argsData0,
                   scalarsInInputs, scalarsInQuery, nodesInQuery,
                   nodesInFragments, resolvedScalarsInFragments, stack, steps,
                   calls, scalars, log, mapVars>>

\* One iteration of scalarsInInputs.forEach:
\*   operation.variables = mapScalar(operation.variables, path, serialize)
\* A transform that throws leaves the assignment undone and ends the run.
SerializeStep ==
    /\ pc = "serialize"
    /\ LET found == scalarsInInputs[idx]
           r == mapScalar(heap, variables, found.path,
                          <<scalars[found.name].serialize>>)
       IN  /\ heap' = r.heap
           /\ calls' = calls \o r.calls
           /\ IF r.threw
              THEN /\ pc' = "thrown"
                   /\ UNCHANGED <<variables, idx>>
              ELSE /\ variables' = r.val
                   /\ idx' = idx + 1
                   /\ pc' = IF idx = Len(scalarsInInputs) THEN "forward"
                                                          ELSE "serialize"
    /\ UNCHANGED <<heap0, vars0, query, ops, argsData, argsData0, scalarsInInputs,
                   scalarsInQuery, nodesInQuery, nodesInFragments,
                   resolvedScalarsInFragments, stack, steps, scalars, log,
                   mapVars>>

\* forward: the next exchange answers with a result; without data the
\* incoming map returns it as it is.
Forward ==
    /\ pc = "forward"
    /\ \E tree \in Responses(query) :
          LET b == Build(heap, tree)
          IN  /\ heap' = b.heap
              /\ heap0' = b.heap
              /\ argsData' = b.val
              /\ argsData0' = tree
              /\ pc' = IF tree = TNull THEN "done" ELSE "visit"
    /\ calls' = <<>>
    /\ UNCHANGED <<variables, vars0, query, ops, scalarsInInputs,
                   scalarsInQuery, nodesInQuery, nodesInFragments,
                   resolvedScalarsInFragments, stack, idx, steps, scalars,
                   log, mapVars>>

\* getScalarsInQuery: visit(query, visitor).
VisitQuery ==
    /\ pc = "visit"
    /\ nodesInQuery' = VisitOperations(scalars, query)
    /\ nodesInFragments' = VisitFragments(scalars, query)
    /\ resolvedScalarsInFragments' = NoLists
    /\ scalarsInQuery' = <<>>
    /\ stack' = <<>>
    /\ idx' = 1
    /\ steps' = 0
    /\ pc' = "output"
    /\ UNCHANGED <<heap, heap0, variables, vars0, query, ops, argsData, argsData0,
                   scalarsInInputs, calls, scalars, log, mapVars>>

\* The next node of nodesInQuery.forEach, or of the forEach of the fragment
\* on top of the stack.  A scalar is pushed; for a fragment
\* resolveScalarsInFragment is called: it returns the memoized list, or
\* nothing on a cycle, or a frame is pushed.
OutputStep ==
    /\ pc = "output"
    /\ steps < MaxSteps
    /\ steps' = steps + 1
    /\ LET nodes == IF stack = <<>> THEN nodesInQuery
                    ELSE NodesOf(nodesInFragments, Top(stack).name)
           i == IF stack = <<>> THEN idx ELSE Top(stack).i
           visited == IF stack = <<>> THEN <<>>
                      ELSE Append(Top(stack).visited, Top(stack).name)
       IN  /\ i <= Len(nodes)
           /\ LET node == nodes[i]
                  memoized == node.name \in DOMAIN resolvedScalarsInFragments
                  returns == node.kind = "scalar" \/ memoized
                                \/ FragmentCycleSeen(visited, node.name)
                  ret == IF node.kind = "scalar" THEN <<node>>
                         ELSE IF memoized
                         THEN WithPrefix(node.path,
                                         resolvedScalarsInFragments[node.name])
                         ELSE <<>>
              IN  IF ~returns
                  THEN /\ stack' = Append(stack, Frame(node.name, visited, 1, <<>>))
                       /\ UNCHANGED <<idx, scalarsInQuery>>
                  ELSE IF stack = <<>>
                  THEN /\ scalarsInQuery' = scalarsInQuery \o ret
                       /\ idx' = idx + 1
                       /\ UNCHANGED stack
                  ELSE /\ stack' = ReplaceTop(stack,
                              [Top(stack) EXCEPT !.i = @ + 1, !.acc = @ \o ret])
                       /\ UNCHANGED <<idx, scalarsInQuery>>
    /\ UNCHANGED <<heap, heap0, variables, vars0, query, ops, argsData, argsData0,
                   scalarsInInputs, nodesInQuery, nodesInFragments,
                   resolvedScalarsInFragments, calls, pc, scalars, log, mapVars>>

\* resolveScalarsInFragment memoizes scalarsInFragment and returns it.
OutputReturn ==
    /\ pc = "output"
    /\ steps < MaxSteps
    /\ steps' = steps + 1
    /\ stack # <<>>
    /\ Top(stack).i > Len(NodesOf(nodesInFragments, Top(stack).name))
    /\ LET top == Top(stack)
           rest == Pop(stack)
       IN  /\ resolvedScalarsInFragments' =
                 [name \in (DOMAIN resolvedScalarsInFragments) \cup {top.name} |->
                     IF name = top.name THEN top.acc
                     ELSE resolvedScalarsInFragments[name]]
           /\ IF rest = <<>>
              THEN /\ scalarsInQuery' = scalarsInQuery \o
                         WithPrefix(nodesInQuery[idx].path, top.acc)
                   /\ idx' = idx + 1
                   /\ stack' = rest
              ELSE LET parent == Top(rest)
                       node == NodesOf(nodesInFragments, parent.name)[parent.i]
                   IN  /\ stack' = ReplaceTop(rest,
                              [parent EXCEPT !.i = @ + 1,
                                  !.acc = @ \o WithPrefix(node.path, top.acc)])
                       /\ UNCHANGED <<idx, scalarsInQuery>>
    /\ UNCHANGED <<heap, heap0, variables, vars0, query, ops, argsData, argsData0,
                   scalarsInInputs, nodesInQuery, nodesInFragments, calls, pc,
                   scalars, log, mapVars>>

\* getScalarsInQuery has returned (its result is logged): nothing to
\* decode, or start the forEach.
OutputDone ==
    /\ pc = "output"
    /\ stack = <<>>
    /\ idx > Len(nodesInQuery)
    /\ pc' = IF scalarsInQuery = <<>> THEN "done" ELSE "deserialize"
    /\ log' = Append(log, [query |-> query, scalarsInQuery |-> scalarsInQuery])
    /\ idx' = 1
    /\ UNCHANGED <<heap, heap0, variables, vars0, query, ops, argsData, argsData0,
                   scalarsInInputs, scalarsInQuery, nodesInQuery,
                   nodesInFragments, resolvedScalarsInFragments, stack, steps,
                   calls, scalars, mapVars>>

\* One iteration of scalarsInQuery.forEach:
\*   args.data = mapScalar(args.data, path, deserialize)
DeserializeStep ==
    /\ pc = "deserialize"
    /\ LET found == scalarsInQuery[idx]
           r == mapScalar(heap, argsData, found.path,
                          <<scalars[found.name].deserialize>>)
       IN  /\ heap' = r.heap
           /\ calls' = calls \o r.calls
           /\ IF r.threw
              THEN /\ pc' = "thrown"
                   /\ UNCHANGED <<argsData, idx>>
              ELSE /\ argsData' = r.val
                   /\ idx' = idx + 1
                   /\ pc' = IF idx = Len(scalarsInQuery) THEN "done"
                                                         ELSE "deserialize"
    /\ UNCHANGED <<heap0, variables, vars0, query, ops, argsData0, scalarsInInputs,
                   scalarsInQuery, nodesInQuery, nodesInFragments,
                   resolvedScalarsInFragments, stack, steps, scalars, log,
                   mapVars>>

Next ==
    \/ Arrive
    \/ InputStep
    \/ InputReturn
    \/ InputDone
    \/ SerializeStep
    \/ Forward
    \/ VisitQuery
    \/ OutputStep
    \/ OutputReturn
    \/ OutputDone
    \/ DeserializeStep

Spec == Init /\ [][Next]_vars

(***************************************************************************)
(* Properties of mapScalar, checked under SpecMap.                         *)
(***************************************************************************)

\* Following p from v through objects only, a null or missing value is met
\* (or v itself is null).
RECURSIVE NullHit(_, _, _)
NullHit(h, v, p) ==
    \/ v.k = "null"
    \/ /\ v.k = "ref"
       /\ h[v.a].k = "obj"
       /\ p # <<>>
       /\ LET c == Get(h, v.a, p[1])
          IN  c.k = "null" \/ (Len(p) > 1 /\ NullHit(h, c, Tail(p)))

\* The non-null leaves p reaches from v, left to right, arrays being
\* transparent at any depth.
RECURSIVE Leaves(_, _, _)
RECURSIVE LeavesOfElems(_, _, _, _)
LeavesOfElems(h, elems, i, p) ==
    IF i > Len(elems) THEN <<>>
    ELSE Leaves(h, elems[i], p) \o LeavesOfElems(h, elems, i + 1, p)
Leaves(h, v, p) ==
    IF v.k = "null" THEN <<>>
    ELSE IF v.k = "ref" /\ h[v.a].k = "arr" THEN LeavesOfElems(h, h[v.a].e, 1, p)
    ELSE IF p = <<>> THEN <<v>>
    ELSE IF v.k = "ref" THEN Leaves(h, Get(h, v.a, p[1]), Tail(p))
    ELSE <<>>

\* C4: mapScalar never calls the transform with a null or missing value,
\* neither for a single value at the final segment nor for any element of
\* an array there.
C4_NeverCalledWithNull ==
    pc = "mapped1" => \A i \in 1..Len(calls) : calls[i].k # "null"

\* The branches of the input on which p meets a null are returned with
\* their content unchanged, and mapping them calls the transform no time.
RECURSIVE NullBranchesKept(_, _, _, _, _, _)
NullBranchesKept(hIn, vIn, hOut, vOut, p, mapping) ==
    IF NullHit(hIn, vIn, p)
    THEN /\ Deref(hOut, vOut) = Deref(hIn, vIn)
         /\ mapScalar(hIn, vIn, p, mapping).calls = <<>>
    ELSE IF vIn.k = "ref" /\ hIn[vIn.a].k = "obj" /\ Len(p) > 1
    THEN LET cIn == Get(hIn, vIn.a, p[1])
             cOut == IF vOut.k = "ref" THEN Get(hOut, vOut.a, p[1]) ELSE Null
         IN  IF IsArray(hIn, cIn)
             THEN /\ IsArray(hOut, cOut)
                  /\ Len(hOut[cOut.a].e) = Len(hIn[cIn.a].e)
                  /\ \A i \in 1..Len(hIn[cIn.a].e) :
                        NullBranchesKept(hIn, hIn[cIn.a].e[i],
                                         hOut, hOut[cOut.a].e[i], Tail(p), mapping)
             ELSE NullBranchesKept(hIn, cIn, hOut, cOut, Tail(p), mapping)
    ELSE TRUE

\* C5: null propagation.  If the root is null, or the value at a segment
\* of the path is null or missing, the transform is not called for that
\* branch and the returned tree has the content of the input there; a
\* null met under an array element counts for that element's branch.
C5_NullPropagation ==
    (pc = "mapped1" /\ ~out.threw) =>
        /\ NullBranchesKept(heap0, root, heap, out.val, path, fns)
        /\ NullHit(heap0, root, path) => calls = <<>>

\* A run on a non-null root whose path meets a null or a missing key.
C5_Witness ==
    /\ pc = "mapped1"
    /\ root.k = "ref"
    /\ Len(path) > 1
    /\ NullHit(heap0, root, path)

\* Every array the path goes through has, in the output, the length it
\* has in the input.
RECURSIVE ArraysKeepLength(_, _, _, _, _)
ArraysKeepLength(hIn, vIn, hOut, vOut, p) ==
    IF IsArray(hIn, vIn)
    THEN /\ IsArray(hOut, vOut)
         /\ Len(hOut[vOut.a].e) = Len(hIn[vIn.a].e)
         /\ \A i \in 1..Len(hIn[vIn.a].e) :
               ArraysKeepLength(hIn, hIn[vIn.a].e[i], hOut, hOut[vOut.a].e[i], p)
    ELSE IF vIn.k = "ref" /\ p # <<>>
    THEN vOut.k = "ref" /\ hOut[vOut.a].k = "obj" /\
         ArraysKeepLength(hIn, Get(hIn, vIn.a, p[1]),
                          hOut, Get(hOut, vOut.a, p[1]), Tail(p))
    ELSE TRUE

\* C6: array transparency.  Whenever the value at a segment is an array the
\* rest of the path is applied to each element, so the transform is called
\* once for each non-null leaf reached through the elements, in order, and
\* the returned array has the length of the input array.
C6_ArrayTransparency ==
    (pc = "mapped1" /\ ~out.threw) =>
        /\ SelectSeq(calls, LAMBDA v : v.k = "str") = Leaves(heap0, root, path)
        /\ ArraysKeepLength(heap0, root, heap, out.val, path)

\* No node of the input heap was written to.
InputUnmutated ==
    /\ Len(heap) >= Len(heap0)
    /\ \A addr \in 1..Len(heap0) : heap[addr] = heap0[addr]

\* vOut is a copy-on-path of vIn: the nodes on the path are nodes the call
\* allocated, and every key of them but the path segment holds the very
\* value (the same reference) the input holds.
RECURSIVE FrameKept(_, _, _, _, _)
FrameKept(hIn, vIn, hOut, vOut, p) ==
    IF vIn.k = "null" THEN vOut = vIn
    ELSE /\ vOut.k = "ref"
         /\ vOut.a > Len(hIn)
         /\ hOut[vOut.a].k = "obj"
         /\ LET fIn == SpreadFields(hIn, vIn)
                fOut == hOut[vOut.a].f
                seg == p[1]
            IN  /\ (DOMAIN fOut) \ {seg} = (DOMAIN fIn) \ {seg}
                /\ \A key \in (DOMAIN fIn) \ {seg} : fOut[key] = fIn[key]
                /\ seg \in DOMAIN fOut <=> seg \in DOMAIN fIn
                /\ seg \in DOMAIN fIn =>
                      LET cIn == fIn[seg]
                          cOut == fOut[seg]
                      IN  IF cIn.k = "null" THEN cOut = cIn
                          ELSE IF IsArray(hIn, cIn)
                          THEN /\ IsArray(hOut, cOut)
                               /\ cOut.a > Len(hIn)
                               /\ Len(hOut[cOut.a].e) = Len(hIn[cIn.a].e)
                               /\ Len(p) > 1 =>
                                     \A i \in 1..Len(hIn[cIn.a].e) :
                                        FrameKept(hIn, hIn[cIn.a].e[i], hOut,
                                                  hOut[cOut.a].e[i], Tail(p))
                          ELSE Len(p) > 1 => FrameKept(hIn, cIn, hOut, cOut, Tail(p))

\* C7: mapScalar writes to no object or array of its input; in the tree
\* it returns every node on the path is a fresh copy and every subtree off
\* the path is the input's own object.
C7_InputNeverMutated ==
    pc = "mapped1" =>
        /\ InputUnmutated
        /\ ~out.threw => FrameKept(heap0, root, heap, out.val, path)

\* A call that replaced a value two levels down, beside an untouched sibling.
C7_Witness ==
    /\ pc = "mapped1"
    /\ ~out.threw
    /\ path = <<"nested", "name">>
    /\ Len(calls) = 1
    /\ Deref(heap, out.val) # Deref(heap0, root)
    /\ heap[out.val.a].f["other"] = heap0[root.a].f["other"]

\* The one-pass result with the composed transform.
Fused == mapScalar(heap0, root, path, fns)

\* Two passes and the fused pass end alike: both throw, or both return
\* trees of the same content.
SameAsFused ==
    /\ out.threw = Fused.threw
    /\ ~out.threw => Deref(heap, out.val) = Deref(Fused.heap, Fused.val)

\* C8 as stated: for every tree, path and transforms t, t', two successive
\* passes give the tree one pass with t' after t gives.
C8_TwoPassesAreFused ==
    pc = "mapped2" => SameAsFused

\* The first transform returned a value that is neither null nor an array
\* wherever the first pass called it with a non-null value.
FirstKeepsValues ==
    LET first == mapScalar(heap0, root, path, <<fns[1]>>)
    IN  \A i \in 1..Len(first.calls) :
            first.calls[i].k # "null" =>
                ApplyOne(fns[1], first.calls[i]).k = "str"

\* C8 amended: the same, for a first transform that maps no non-null value
\* to null or to an array.
C8_TwoPassesAreFusedIfValuesKept ==
    (pc = "mapped2" /\ FirstKeepsValues) => SameAsFused

\* Two passes with different transforms that both changed the tree.
C8_Witness ==
    /\ pc = "mapped2"
    /\ ~out.threw
    /\ FirstKeepsValues
    /\ fns = <<"upper", "wrap">>
    /\ Len(calls) = 4
    /\ path = <<"nested", "name">>

(***************************************************************************)
(* Properties of the resolvers and of the exchange, checked under Spec.    *)
(***************************************************************************)
\* The (typeName, path) pairs of a resolver's result, in order.
Pairs(list) == [i \in 1..Len(list) |-> <<list[i].name, list[i].path>>]

\* C1: for a document whose fragments are acyclic, getScalarsInQuery
\* returns the same list of (typeName, path) pairs as it returns for the
\* document with every fragment spread inlined at its spread site, to any
\* depth of fragments; paths are made of response keys.
C1_FragmentsResolveAsInlined ==
    \A i \in 1..Len(log) : \A j \in 1..Len(log) :
        (/\ AcyclicDoc(log[i].query)
         /\ log[j].query = Inline(log[i].query, log[i].query))
        => Pairs(log[i].scalarsInQuery) = Pairs(log[j].scalarsInQuery)

\* Fragment A spreads B below deeplyNested and is itself spread at two
\* aliased sites; both requests have been resolved.
C1_Witness ==
    /\ Len(log) = 2
    /\ FragmentNames(log[1].query) = {"A", "B"}
    /\ log[2].query = Inline(log[1].query, log[1].query)
    /\ Pairs(log[1].scalarsInQuery) =
          <<<<"String", <<"first", "name">>>>,
            <<"String", <<"first", "deeplyNested", "name">>>>,
            <<"String", <<"second", "name">>>>,
            <<"String", <<"second", "deeplyNested", "name">>>>>>

\* The non-null leaves of a variables tree whose declared type is a scalar
\* with a registered serialize, at any depth of input objects and lists.
RECURSIVE EncodableLeaves(_, _, _)
RECURSIVE EncodableIn(_, _, _, _)
RECURSIVE EncodableOf(_, _, _)
EncodableIn(sc, tree, type, keys) ==
    IF keys = {} THEN 0
    ELSE LET key == CHOOSE k \in keys : TRUE
         IN  EncodableLeaves(sc, tree.f[key], FieldDef(type, key).type)
             + EncodableIn(sc, tree, type, keys \ {key})
EncodableOf(sc, elems, type) ==
    IF elems = <<>> THEN 0
    ELSE EncodableLeaves(sc, Head(elems), type) + EncodableOf(sc, Tail(elems), type)
EncodableLeaves(sc, tree, type) ==
    IF tree.k = "null" \/ ~HasType(type) THEN 0
    ELSE IF tree.k = "arr" THEN EncodableOf(sc, tree.e, type)
    ELSE IF TypeKind[type] = "scalar"
    THEN (IF Registered(sc, type, "serialize") THEN 1 ELSE 0)
    ELSE IF TypeKind[type] = "input" /\ tree.k = "obj"
    THEN EncodableIn(sc, tree, type, DOMAIN tree.f)
    ELSE 0

RECURSIVE EncodableVariables(_, _, _)
EncodableVariables(sc, tree, defs) ==
    IF defs = <<>> \/ tree.k # "obj" THEN 0
    ELSE (IF Head(defs).name \in DOMAIN tree.f
          THEN EncodableLeaves(sc, tree.f[Head(defs).name], Head(defs).type)
          ELSE 0) + EncodableVariables(sc, tree, Tail(defs))

\* C2: when the operation is forwarded, the number of serialize calls made
\* for it equals the number of non-null leaves of its variables whose
\* declared type is a scalar with a registered serialize, at any depth
\* inside input objects and lists.
C2_SerializeCallsCountLeaves ==
    pc = "forward" =>
        Len(calls) = EncodableVariables(scalars, vars0, OwnOperation(query).vars)

\* The value a registered transform gives for a leaf of a tree.
TreeApply(fn, t) ==
    LET r == ApplyOne(fn, [k |-> t.k, s |-> t.s, a |-> 0])
    IN  [k |-> r.k, s |-> r.s, f |-> NoTrees, e |-> <<>>]

RECURSIVE DecodedLeaf(_, _)
DecodedLeaf(fn, t) ==
    IF t.k = "null" THEN t
    ELSE IF t.k = "arr" THEN TArr([i \in 1..Len(t.e) |-> DecodedLeaf(fn, t.e[i])])
    ELSE TreeApply(fn, t)

\* The data with deserialize applied once at every position that the
\* selection set gives a scalar type with a registered deserialize, and
\* nowhere else.
RECURSIVE Decoded(_, _, _, _)
Decoded(sc, tree, type, sels) ==
    IF tree.k = "arr"
    THEN TArr([i \in 1..Len(tree.e) |-> Decoded(sc, tree.e[i], type, sels)])
    ELSE IF tree.k # "obj" THEN tree
    ELSE TObj([key \in DOMAIN tree.f |->
            IF \E i \in 1..Len(sels) : ResponseKey(sels[i]) = key
            THEN LET first == sels[CHOOSE i \in 1..Len(sels) :
                                       ResponseKey(sels[i]) = key]
                     def == FieldDef(type, first.name)
                 IN  IF ~HasType(def.type) THEN tree.f[key]
                     ELSE IF TypeKind[def.type] = "scalar"
                     THEN (IF Registered(sc, def.type, "deserialize")
                           THEN DecodedLeaf(sc[def.type].deserialize, tree.f[key])
                           ELSE tree.f[key])
                     ELSE Decoded(sc, tree.f[key], def.type, MergedSel(sels, key))
            ELSE tree.f[key]])

\* C3: a result with data leaves the exchange with deserialize applied at
\* exactly the positions that the selection set of its own operation gives
\* a registered scalar type, every other position unchanged, also when the
\* document holds more than one operation.
C3_DecodesOwnOperationOnly ==
    (pc = "done" /\ argsData0 # TNull /\ AcyclicDoc(query)) =>
        Deref(heap, argsData) =
            Decoded(scalars, argsData0, "Query",
                    InlineCut(query, OwnOperation(query).sel, {}))

\* C9: when a transform throws while the paths of an operation (of a
\* result) are applied one after another, the operation's variables (the
\* result's data) are as they were handed over: no earlier path has left
\* them rewritten.
C9_ThrowLeavesNothingRewritten ==
    pc = "thrown" =>
        IF argsData0 = TNull
        THEN Deref(heap, variables) = vars0
        ELSE Deref(heap, argsData) = argsData0

\* The paths to registered scalars below an input type along which no
\* input-object type is entered twice.
RECURSIVE AcyclicInputPaths(_, _, _)
AcyclicInputPaths(sc, type, entered) ==
    IF type \in entered \/ ~HasType(type) THEN {}
    ELSE IF TypeKind[type] = "scalar"
    THEN (IF Registered(sc, type, "serialize") THEN {<<>>} ELSE {})
    ELSE IF TypeKind[type] = "input"
    THEN UNION {{<<getFields(type)[i].name>> \o p :
                    p \in AcyclicInputPaths(sc, getFields(type)[i].type,
                                            entered \cup {type})} :
                i \in 1..Len(getFields(type))}
    ELSE {}

PathsOf(list) == {list[i].path : i \in 1..Len(list)}

ExpectedInputPaths(sc, doc) ==
    UNION {{<<VariableDefinitions(doc)[i].name>> \o p :
               p \in AcyclicInputPaths(sc, VariableDefinitions(doc)[i].type, {})} :
           i \in 1..Len(VariableDefinitions(doc))}

\* The paths the visit found outside fragments, and for every spread
\* outside fragments the paths of the scalars its fragment selects itself.
DirectPaths(sc, doc) ==
    LET nodes == VisitOperations(sc, doc)
        nodesF == VisitFragments(sc, doc)
    IN  UNION {IF nodes[i].kind = "scalar" THEN {nodes[i].path}
               ELSE {nodes[i].path \o NodesOf(nodesF, nodes[i].name)[j].path :
                        j \in {k \in 1..Len(NodesOf(nodesF, nodes[i].name)) :
                                 NodesOf(nodesF, nodes[i].name)[k].kind = "scalar"}} :
               i \in 1..Len(nodes)}

NoRepeat(names) ==
    \A i \in 1..Len(names) : \A j \in 1..Len(names) : names[i] = names[j] => i = j

StackNames == [i \in 1..Len(stack) |-> stack[i].name]

RECURSIVE resolveScalarsInFragment(_, _, _, _)
RECURSIVE ResolveNodes(_, _, _, _, _, _)
ResolveNodes(nodesF, memo, nodes, fragmentName, visited, acc) ==
    IF nodes = <<>> THEN [ret |-> acc, memo |-> memo]
    ELSE LET node == Head(nodes)
         IN  IF node.kind = "scalar"
             THEN ResolveNodes(nodesF, memo, Tail(nodes), fragmentName, visited,
                               Append(acc, node))
             ELSE LET r == resolveScalarsInFragment(nodesF, memo, node.name,
                                                    Append(visited, fragmentName))
                  IN  ResolveNodes(nodesF, r.memo, Tail(nodes), fragmentName,
                                   visited, acc \o WithPrefix(node.path, r.ret))
resolveScalarsInFragment(nodesF, memo, fragmentName, visited) ==
    IF fragmentName \in DOMAIN memo
    THEN [ret |-> memo[fragmentName], memo |-> memo]
    ELSE IF FragmentCycleSeen(visited, fragmentName)
    THEN [ret |-> <<>>, memo |-> memo]
    ELSE LET r == ResolveNodes(nodesF, memo, NodesOf(nodesF, fragmentName),
                               fragmentName, visited, <<>>)
         IN  [ret |-> r.ret,
              memo |-> [name \in (DOMAIN r.memo) \cup {fragmentName} |->
                           IF name = fragmentName THEN r.ret ELSE r.memo[name]]]

\* What resolving fragment `name` afresh returns: an empty memo table and
\* an empty list of visited fragments.
ResolvedAfresh(name) ==
    resolveScalarsInFragment(nodesInFragments, NoLists, name, <<>>).ret

\* C11: at every point of an output resolution each entry of
\* resolvedScalarsInFragments is the list that resolving its fragment
\* afresh, with nothing visited, returns; so what a spread of a fragment
\* contributes does not depend on where the fragment was first resolved,
\* also when the fragment lies on a cycle.
C11_MemoEqualsFreshResolution ==
    pc = "output" =>
        \A name \in DOMAIN resolvedScalarsInFragments :
            Pairs(resolvedScalarsInFragments[name]) = Pairs(ResolvedAfresh(name))

\* The number of non-null leaves of tree t at the paths of the set ps.
RECURSIVE LeavesAt(_, _)
LeavesAt(t, ps) ==
    IF ps = {} THEN 0
    ELSE LET p == CHOOSE q \in ps : TRUE
             b == Build(<<>>, t)
         IN  Len(Leaves(b.heap, b.val, p)) + LeavesAt(t, ps \ {p})

\* C12: the list getScalarsInQuery returns holds no path twice, also when a
\* response key is selected more than once at a position, so in the decode
\* pass over a result deserialize is called at most once for each scalar
\* value of the data.
C12_EachValueDecodedOnce ==
    /\ \A i \in 1..Len(log) :
          NoRepeat([j \in 1..Len(log[i].scalarsInQuery) |->
                       log[i].scalarsInQuery[j].path])
    /\ (pc = "done" /\ argsData0 # TNull) =>
          Len(calls) <= LeavesAt(argsData0, PathsOf(scalarsInQuery))

====
